---- MODULE Spec2Model ----
(***************************************************************************)
(* Escrow bounty programs of SOL-audit.                                    *)
(*                                                                         *)
(*   audit_bounty         the multi-winner program (processor.rs)          *)
(*   audit-bounty-anchor  the single-winner program (lib.rs, instructions) *)
(*                                                                         *)
(* The two programs are separate deployments with separate records; the    *)
(* variable program says which deployment a behaviour exercises.  An       *)
(* account holds a record and the number of bytes allocated to it (space): *)
(* the native program reads a record with try_from_slice, which accepts    *)
(* the data only when the encoded record fills the account exactly, and    *)
(* writes it with serialize, which fails when the encoded record is longer *)
(* than the account.  A handler is one atomic step: it either applies all  *)
(* its writes and transfers, or returns an error and the runtime rolls the *)
(* instruction back, so that nothing changes but the outcome in last.      *)
(***************************************************************************)
EXTENDS Integers, FiniteSets, Sequences, TLC

VARIABLES
    program,    \* which deployment: "audit_bounty" or "audit_bounty_anchor"
    now,        \* Clock::get()?.unix_timestamp
    bounty,     \* audit_bounty: bounty address -> BountyAccount and its space
    vault,      \* account address -> lamports held (rent left out)
    received,   \* bounty address -> (user -> lamports received out of its escrow)
    subs,       \* audit_bounty: submission address -> Submission and its space
    votes,      \* audit_bounty: vote address -> Vote and its space
    abounty,    \* audit-bounty-anchor: bounty address -> Bounty
    keys,       \* the bounty addresses callers work with in this behaviour
    last        \* the latest instruction and what it returned

vars == <<program, now, bounty, vault, received, subs, votes, abounty, keys, last>>

(***************************************************************************)
(* Bounds of the model.                                                    *)
(***************************************************************************)
MaxTime == 2
MaxAmount == 3
MaxSubs == 2
MaxVotes == 2

(***************************************************************************)
(* Input domains.                                                          *)
(***************************************************************************)
Users == {"alice", "bob", "carol"}
Creators == {"alice", "bob"}
None == "None"          \* Option<Pubkey>::None
NoneInt == <<>>          \* Option<u64>::None, Option<u8>::None, Option<String>::None
Some(x) == <<x>>
NoAddr == <<>>           \* no account supplied
SubIds == {"r1"}
Amounts == {0, MaxAmount}
Deadlines == {MaxTime - 1}
WinnerOpts == {NoneInt, Some(0), Some(2)}
Payouts == {1, MaxAmount}
Severities == {0, 3, 6}
\* Bounty::MAX_REPORT_URI_SIZE
MAX_REPORT_URI_SIZE == 100
\* the lengths in bytes of the report_uri strings auditors pass: one that
\* fits the account, the longest that passes the length check, one more
UriLens == {MAX_REPORT_URI_SIZE - 4, MAX_REPORT_URI_SIZE, MAX_REPORT_URI_SIZE + 1}
\* the lengths in bytes of the ipfs_hash strings hunters pass to
\* record_submission, and of their description strings
HashLens == {MAX_REPORT_URI_SIZE - 54, MAX_REPORT_URI_SIZE + 1}
DescLens == {0}
\* AUTO_RELEASE_DEADLINE, 7 * 24 * 60 * 60 seconds: the clock of the model
\* counts in units of seven days
AUTO_RELEASE_DEADLINE == 1

(***************************************************************************)
(* Deterministic derived addresses (Pubkey::find_program_address).         *)
(***************************************************************************)
\* the bounty address of a creator under one fixed custom_seed (nonce)
BountyPda(creator) == <<"bounty", creator>>
VaultPda(b) == <<"vault", b>>
SubmissionPda(b, hunter, id) == <<"submission", b, hunter, id>>

VotePda(a, voter) == <<"vote", a, voter>>

\* audit-bounty-anchor: the escrow address under the deriving program p
EscrowPda(b, p) == <<"escrow", b, p>>
OwnProgram == "program_id"
SystemProgram == "system_program"

BountyKeys == {BountyPda(c) : c \in Creators}
VaultKeys == {VaultPda(b) : b \in BountyKeys}
EscrowKeys == {EscrowPda(b, p) : b \in BountyKeys, p \in {OwnProgram, SystemProgram}}
\* every account whose lamports the model keeps
Accounts == VaultKeys \cup EscrowKeys \cup BountyKeys
SubKeys == {SubmissionPda(b, h, id) : b \in BountyKeys, h \in Users, id \in SubIds}
\* the hunters who record submissions that are voted on, the voters, and
\* the vote accounts derived for them
Hunters == Users \ Creators
Voters == {"alice", "bob"}
VoteKeys == {VotePda(SubmissionPda(b, h, id), u) :
                b \in BountyKeys, h \in Hunters, id \in SubIds, u \in Voters}

(***************************************************************************)
(* Records (state.rs) and the accounts that hold them.  space is the       *)
(* length of the account's data, 0 for an account the program has not      *)
(* created.                                                                *)
(***************************************************************************)
NoBounty ==
    [creator |-> None, hunter |-> None, amount |-> 0, deadline |-> 0,
     status |-> "Open", initialized |-> FALSE,
     winners_count |-> 0, current_winners |-> 0, space |-> 0]

\* audit-bounty-anchor: Bounty (lib.rs); report_uri is kept by its length
NoABounty ==
    [creator |-> None, auditor |-> None, amount |-> 0, status |-> "Open",
     report_uri |-> NoneInt, created_at |-> 0, initialized |-> FALSE]

\* Submission (state.rs); description and ipfs_hash are kept by their
\* lengths in bytes
NoSubmission ==
    [id |-> "", bounty_id |-> NoAddr, auditor |-> None, description |-> 0,
     ipfs_hash |-> 0, severity |-> 0, upvotes |-> 0, downvotes |-> 0,
     status |-> "Pending", payout_amount |-> NoneInt, is_winner |-> FALSE,
     space |-> 0]

\* Vote (state.rs); vote_type is VoteType: "None", "Up" or "Down"
NoVote ==
    [voter |-> None, submission |-> NoAddr, bounty |-> NoAddr,
     vote_type |-> "None", space |-> 0]

\* std::mem::size_of::<BountyAccount>(), the space process_create_bounty
\* allocates: 85 bytes of fields aligned to 8
BountyAccountSize == 88
\* std::mem::size_of::<Submission>(), the space process_record_submission
\* allocates: three Strings of 24 bytes, two Pubkeys, Option<u64> of 16
\* bytes, three u64/i64 and three single bytes, aligned to 8
SubmissionSize == 184
\* std::mem::size_of::<Vote>(), the space process_vote_on_submission
\* allocates: three Pubkeys, i64 and one byte, aligned to 8
VoteSize == 112

\* the length of the Borsh encoding of a BountyAccount: creator,
\* Option<Pubkey>, amount, deadline, status, initialized, winners_count,
\* current_winners
BountyLen(bd) ==
    32 + (IF bd.hunter = None THEN 1 ELSE 1 + 32) + 8 + 8 + 1 + 1 + 1 + 1

\* the length of the Borsh encoding of a Submission: id, bounty_id, auditor,
\* description, ipfs_hash, severity, upvotes, downvotes, status,
\* Option<u64>, is_winner, created_at
SubmissionLen(sd) ==
    (4 + Len(sd.id)) + 32 + 32 + (4 + sd.description) + (4 + sd.ipfs_hash)
    + 1 + 8 + 8 + 1 + (IF sd.payout_amount = NoneInt THEN 1 ELSE 1 + 8) + 1 + 8

\* the length of the Borsh encoding of a Vote: voter, submission, bounty,
\* vote_type, timestamp
VoteLen == 32 + 32 + 32 + 1 + 8

\* account_info.owner == program_id: the account was created by the program
BountyOwned(b) == bounty[b].space > 0
SubOwned(a) == subs[a].space > 0
VoteOwned(va) == votes[va].space > 0
Owned(x) ==
    \/ x \in BountyKeys /\ BountyOwned(x)
    \/ \E b \in BountyKeys : x = VaultPda(b) /\ BountyOwned(b)
    \/ x \in SubKeys /\ SubOwned(x)
\* BountyAccount::try_from_slice(&data) is Ok: the encoded record is all of
\* the account's data
BountyReadable(b) == BountyLen(bounty[b]) = bounty[b].space
\* Submission::try_from_slice(&data) is Ok
SubReadable(a) == SubmissionLen(subs[a]) = subs[a].space
\* Vote::try_from_slice(&data) is Ok
VoteReadable(va) == VoteLen = votes[va].space
\* the accounts a caller may pass where an escrow account is expected
EscrowInputs == VaultKeys \cup BountyKeys
\* Submission::is_initialized
SubInitialized(a) == subs[a].id # ""

NoCall ==
    [op |-> "none", result |-> "none"]
\* instruction op returned r
Call(op, r) == [op |-> op, result |-> r]

\* transfer_signed(from, to, amount): escrow v of bounty b pays amt to user `to`
Pay(v, b, to, amt) ==
    /\ vault' = [vault EXCEPT ![v] = @ - amt]
    /\ received' = [received EXCEPT ![b][to] = @ + amt]

\* system_instruction::transfer of amt lamports out of vault v, invoked by
\* the native program: the System Program may not lower the balance of an
\* account it does not own, and the vault is created with owner program_id
TransferFromVault(v, amt) ==
    IF Owned(v) /\ amt > 0 THEN "ExternalAccountLamportSpend" ELSE "Ok"

\* the BountyAccount process_create_bounty builds, in an account of `space`
\* bytes
NewBounty(s, amount, deadline, winners_count, space) ==
    [creator |-> s, hunter |-> None, amount |-> amount, deadline |-> deadline,
     status |-> "Open", initialized |-> TRUE,
     winners_count |-> IF winners_count = NoneInt THEN 1 ELSE winners_count[1],
     current_winners |-> 0, space |-> space]

\* the Bounty written by audit_bounty::create_bounty (lib.rs)
NewABounty(s, amount) ==
    [creator |-> s, auditor |-> None, amount |-> amount, status |-> "Open",
     report_uri |-> NoneInt, created_at |-> now, initialized |-> TRUE]

\* Bounty::space(): the space of the account the Anchor program allocates
ABountySpace ==
    8 + 32 + (1 + 32) + 8 + 1 + (1 + MAX_REPORT_URI_SIZE) + 8 + 1 + 1

\* the length of the discriminator and the Borsh encoding of a Bounty:
\* creator, Option<Pubkey>, amount, status, Option<String>, created_at,
\* nonce, bump
ABountyLen(bd) ==
    8 + 32 + (IF bd.auditor = None THEN 1 ELSE 1 + 32) + 8 + 1
    + (IF bd.report_uri = NoneInt THEN 1 ELSE 1 + 4 + bd.report_uri[1])
    + 8 + 1 + 1

(***************************************************************************)
(* The store at the start: the callers of a behaviour work with alice's    *)
(* bounty address (keys), which does not exist yet.  In the Anchor         *)
(* deployment another creator, bob, has created and funded a bounty        *)
(* before; it stays as it is, so that a funded escrow other than the right *)
(* one exists in the store.  The native deployment holds no account: its   *)
(* create_bounty never completes.                                          *)
(***************************************************************************)
Others == BountyKeys \ {BountyPda("alice")}

Init ==
    /\ program \in {"audit_bounty", "audit_bounty_anchor"}
    /\ now = 0
    /\ keys = {BountyPda("alice")}
    /\ bounty = [b \in BountyKeys |-> NoBounty]
    /\ abounty = [b \in BountyKeys |->
                    IF program = "audit_bounty_anchor" /\ b \in Others
                    THEN NewABounty("bob", MaxAmount) ELSE NoABounty]
    /\ vault = [v \in Accounts |->
                    IF program = "audit_bounty_anchor"
                       /\ \E b \in Others : v = EscrowPda(b, OwnProgram)
                    THEN MaxAmount ELSE 0]
    /\ received = [b \in BountyKeys |-> [u \in Users |-> 0]]
    /\ subs = [a \in SubKeys |-> NoSubmission]
    /\ votes = [va \in VoteKeys |-> NoVote]
    /\ last = NoCall

\* the clock oracle advances
Tick ==
    /\ now < MaxTime
    /\ now' = now + 1
    /\ UNCHANGED <<program, votes, bounty, vault, received, subs, abounty, keys, last>>

(***************************************************************************)
(* audit_bounty: Processor (processor.rs).  Each XCheck operator is the    *)
(* handler's chain of early returns, failed reads, refused transfers and   *)
(* failed writes, in the order of the code; the action applies the         *)
(* handler's writes when the check yields "Ok".                            *)
(***************************************************************************)

\* process_create_bounty, lines 260-263: the record is serialized through
\* the account's own data slice, which the write advances past the bytes
\* written, and is then read back with try_from_slice from what is left of
\* the slice: the bytes after the record, all zero in a new account.  They
\* are read as a BountyAccount only when they are exactly as long as the
\* encoding of an all-zero record.
ReadBack(space, written) ==
    IF space - written = BountyLen(NoBounty) THEN "Ok" ELSE "BorshIoError"

\* process_create_bounty: validation, account checks, the accounts it
\* creates, the write of the record and its read-back.  The System Program
\* refuses create_account (AccountAlreadyInUse) at an address that already
\* holds lamports.
CreateBountyCheck(s, b, v, amount, deadline, winners_count) ==
    LET space == IF BountyOwned(b) THEN bounty[b].space ELSE BountyAccountSize
        bd == NewBounty(s, amount, deadline, winners_count, space)
    IN
    IF amount = 0 THEN "InvalidBountyAmount"
    ELSE IF deadline <= now THEN "InvalidDeadline"
    ELSE IF BountyPda(s) # b THEN "InvalidAccountData"
    ELSE IF ~BountyOwned(b) /\ vault[b] > 0 THEN "AccountAlreadyInUse"
    ELSE IF BountyOwned(b) /\ ~BountyReadable(b) THEN "BorshIoError"
    ELSE IF BountyOwned(b) /\ bounty[b].initialized THEN "BountyAlreadyInitialized"
    ELSE IF VaultPda(b) # v THEN "InvalidAccountData"
    ELSE IF ~Owned(v) /\ vault[v] > 0 THEN "AccountAlreadyInUse"
    ELSE IF BountyLen(bd) > space THEN "BorshIoError"
    ELSE ReadBack(space, BountyLen(bd))

\* a create_bounty instruction and what it returned, with its accounts and
\* arguments, the clock value it ran at and whether the bounty address held
\* no account of the program yet
CreateCall(r, s, b, v, amount, deadline, winners_count) ==
    [op |-> "create_bounty", result |-> r, signer |-> s, bounty |-> b,
     vault |-> v, amount |-> amount, deadline |-> deadline,
     winners_count |-> winners_count, at |-> now, fresh |-> ~BountyOwned(b)]

CreateBounty(s, b, v, amount, deadline, winners_count) ==
    LET r == CreateBountyCheck(s, b, v, amount, deadline, winners_count)
        space == IF BountyOwned(b) THEN bounty[b].space ELSE BountyAccountSize
    IN
    /\ program = "audit_bounty"
    /\ last' = CreateCall(r, s, b, v, amount, deadline, winners_count)
    /\ IF r = "Ok"
       THEN /\ vault' = [vault EXCEPT ![v] = @ + amount]
            /\ bounty' = [bounty EXCEPT ![b] =
                  NewBounty(s, amount, deadline, winners_count, space)]
       ELSE UNCHANGED <<vault, bounty>>
    /\ UNCHANGED <<program, votes, now, received, subs, abounty, keys>>

\* process_submit_work
SubmitWorkCheck(s, b) ==
    IF ~BountyOwned(b) THEN "IncorrectProgramId"
    ELSE IF ~BountyReadable(b) THEN "BorshIoError"
    ELSE IF ~bounty[b].initialized THEN "UninitializedAccount"
    ELSE IF bounty[b].status # "Open" THEN "BountyNotOpen"
    ELSE "Ok"

SubmitWork(s, b) ==
    /\ program = "audit_bounty"
    /\ last' = Call("submit_work", SubmitWorkCheck(s, b))
    /\ UNCHANGED <<program, votes, now, bounty, vault, received, subs, abounty, keys>>

\* the BountyAccount process_approve_submission writes
Approved(bd, hunter) ==
    [bd EXCEPT !.status = "Approved", !.hunter = hunter, !.initialized = TRUE]

\* process_approve_submission: a failed read of the bounty is returned as
\* InvalidAccountData; the record with the hunter set is 32 bytes longer
ApproveSubmissionCheck(s, b, hunter, hunterAcct, id, a) ==
    IF ~BountyOwned(b) THEN "IncorrectProgramId"
    ELSE IF hunter # hunterAcct THEN "InvalidArgument"
    ELSE IF SubmissionPda(b, hunterAcct, id) # a THEN "InvalidAccountData"
    ELSE IF ~SubOwned(a) THEN "InvalidAccountData"
    ELSE IF ~BountyReadable(b) THEN "InvalidAccountData"
    ELSE IF ~bounty[b].initialized THEN "UninitializedAccount"
    ELSE IF bounty[b].status # "Open" THEN "BountyNotOpen"
    ELSE IF bounty[b].creator # s THEN "UnauthorizedCreator"
    ELSE IF BountyLen(Approved(bounty[b], hunter)) > bounty[b].space THEN "BorshIoError"
    ELSE "Ok"

ApproveSubmission(s, b, hunter, hunterAcct, id, a) ==
    LET r == ApproveSubmissionCheck(s, b, hunter, hunterAcct, id, a) IN
    /\ program = "audit_bounty"
    /\ last' = Call("approve_submission", r)
    /\ IF r = "Ok"
       THEN bounty' = [bounty EXCEPT ![b] = Approved(bounty[b], hunter)]
       ELSE UNCHANGED bounty
    /\ UNCHANGED <<program, votes, now, vault, received, subs, abounty, keys>>

\* process_claim_bounty
ClaimBountyCheck(s, b, v) ==
    IF ~BountyOwned(b) THEN "IncorrectProgramId"
    ELSE IF ~Owned(v) THEN "IncorrectProgramId"
    ELSE IF ~BountyReadable(b) THEN "BorshIoError"
    ELSE IF ~bounty[b].initialized THEN "UninitializedAccount"
    ELSE IF bounty[b].status # "Approved" THEN "BountyNotApproved"
    ELSE IF bounty[b].hunter = None \/ bounty[b].hunter # s THEN "UnauthorizedHunter"
    ELSE IF VaultPda(b) # v THEN "InvalidAccountData"
    ELSE IF vault[v] < bounty[b].amount THEN "InsufficientFunds"
    ELSE TransferFromVault(v, bounty[b].amount)

ClaimBounty(s, b, v) ==
    LET r == ClaimBountyCheck(s, b, v) IN
    /\ program = "audit_bounty"
    /\ last' = Call("claim_bounty", r)
    /\ IF r = "Ok"
       THEN /\ Pay(v, b, s, bounty[b].amount)
            /\ bounty' = [bounty EXCEPT ![b].status = "Claimed"]
       ELSE UNCHANGED <<vault, received, bounty>>
    /\ UNCHANGED <<program, votes, now, subs, abounty, keys>>

\* process_cancel_bounty
CancelBountyCheck(s, b, v) ==
    IF ~BountyOwned(b) THEN "IncorrectProgramId"
    ELSE IF ~Owned(v) THEN "IncorrectProgramId"
    ELSE IF ~BountyReadable(b) THEN "BorshIoError"
    ELSE IF ~bounty[b].initialized THEN "UninitializedAccount"
    ELSE IF bounty[b].status # "Open" THEN "BountyNotOpen"
    ELSE IF bounty[b].creator # s THEN "UnauthorizedCreator"
    ELSE IF now <= bounty[b].deadline THEN "DeadlineNotPassed"
    ELSE IF VaultPda(b) # v THEN "InvalidAccountData"
    ELSE IF vault[v] < bounty[b].amount THEN "InsufficientFunds"
    ELSE TransferFromVault(v, bounty[b].amount)

CancelBounty(s, b, v) ==
    LET r == CancelBountyCheck(s, b, v) IN
    /\ program = "audit_bounty"
    /\ last' = Call("cancel_bounty", r)
    /\ IF r = "Ok"
       THEN /\ Pay(v, b, s, bounty[b].amount)
            /\ bounty' = [bounty EXCEPT ![b].status = "Cancelled"]
       ELSE UNCHANGED <<vault, received, bounty>>
    /\ UNCHANGED <<program, votes, now, subs, abounty, keys>>

\* process_cancel_bounty_emergency
CancelBountyEmergencyCheck(s, b, v) ==
    IF ~BountyOwned(b) THEN "IncorrectProgramId"
    ELSE IF ~Owned(v) THEN "IncorrectProgramId"
    ELSE IF ~BountyReadable(b) THEN "BorshIoError"
    ELSE IF ~bounty[b].initialized THEN "UninitializedAccount"
    ELSE IF bounty[b].status # "Open" THEN "BountyNotOpen"
    ELSE IF bounty[b].creator # s THEN "UnauthorizedCreator"
    ELSE IF VaultPda(b) # v THEN "InvalidAccountData"
    ELSE IF vault[v] < bounty[b].amount THEN "InsufficientFunds"
    ELSE TransferFromVault(v, bounty[b].amount)

CancelBountyEmergency(s, b, v) ==
    LET r == CancelBountyEmergencyCheck(s, b, v) IN
    /\ program = "audit_bounty"
    /\ last' = Call("cancel_bounty_emergency", r)
    /\ IF r = "Ok"
       THEN /\ Pay(v, b, s, bounty[b].amount)
            /\ bounty' = [bounty EXCEPT ![b].status = "Cancelled"]
       ELSE UNCHANGED <<vault, received, bounty>>
    /\ UNCHANGED <<program, votes, now, subs, abounty, keys>>

\* the Submission process_record_submission builds, in an account of
\* `space` bytes
NewSubmission(s, b, id, severity, description, ipfs_hash, space) ==
    [id |-> id, bounty_id |-> b, auditor |-> s, description |-> description,
     ipfs_hash |-> ipfs_hash, severity |-> severity, upvotes |-> 0,
     downvotes |-> 0, status |-> "Pending", payout_amount |-> NoneInt,
     is_winner |-> FALSE, space |-> space]

\* process_record_submission: a submission account the program owns whose
\* data cannot be read counts as not initialized; an account it does not
\* own is created under the seeds of (bounty, hunter, id); then the record
\* is written
RecordSubmissionCheck(s, b, a, id, severity, description, ipfs_hash) ==
    LET space == IF SubOwned(a) THEN subs[a].space ELSE SubmissionSize
        sd == NewSubmission(s, b, id, severity, description, ipfs_hash, space)
    IN
    IF ~BountyOwned(b) THEN "IncorrectProgramId"
    ELSE IF ~BountyReadable(b) THEN "BorshIoError"
    ELSE IF ~bounty[b].initialized THEN "UninitializedAccount"
    ELSE IF bounty[b].status # "Open" THEN "BountyNotOpen"
    ELSE IF severity < 1 \/ severity > 5 THEN "InvalidArgument"
    ELSE IF SubOwned(a) /\ SubReadable(a) /\ SubInitialized(a)
         THEN "SubmissionAlreadyApproved"
    ELSE IF ~SubOwned(a) /\ SubmissionPda(b, s, id) # a THEN "PrivilegeEscalation"
    ELSE IF SubmissionLen(sd) > space THEN "BorshIoError"
    ELSE "Ok"

RecordSubmission(s, b, a, id, severity, description, ipfs_hash) ==
    LET r == RecordSubmissionCheck(s, b, a, id, severity, description, ipfs_hash)
        space == IF SubOwned(a) THEN subs[a].space ELSE SubmissionSize
    IN
    /\ program = "audit_bounty"
    /\ r = "Ok" => Cardinality({x \in SubKeys : SubOwned(x)}) < MaxSubs
    /\ last' = Call("record_submission", r)
    /\ IF r = "Ok"
       THEN subs' = [subs EXCEPT ![a] =
                NewSubmission(s, b, id, severity, description, ipfs_hash, space)]
       ELSE UNCHANGED subs
    /\ UNCHANGED <<program, votes, now, bounty, vault, received, abounty, keys>>

\* the Submission process_select_winner writes
Selected(sd, payout_amount) ==
    [sd EXCEPT !.is_winner = TRUE, !.status = "Approved",
               !.payout_amount = Some(payout_amount)]

\* process_select_winner: the record with the payout set is 8 bytes longer
SelectWinnerCheck(s, b, a, id, payout_amount) ==
    IF ~BountyReadable(b) THEN "BorshIoError"
    ELSE IF ~bounty[b].initialized THEN "UninitializedAccount"
    ELSE IF bounty[b].status # "Open" THEN "BountyNotOpen"
    ELSE IF bounty[b].creator # s THEN "UnauthorizedCreator"
    ELSE IF bounty[b].current_winners >= bounty[b].winners_count THEN "InvalidArgument"
    ELSE IF ~SubOwned(a) THEN "InvalidAccountData"
    ELSE IF ~SubReadable(a) THEN "BorshIoError"
    ELSE IF ~SubInitialized(a) THEN "UninitializedAccount"
    ELSE IF subs[a].id # id THEN "InvalidArgument"
    ELSE IF subs[a].is_winner THEN "InvalidArgument"
    ELSE IF payout_amount > bounty[b].amount \div bounty[b].winners_count
         THEN "InvalidArgument"
    ELSE IF SubmissionLen(Selected(subs[a], payout_amount)) > subs[a].space
         THEN "BorshIoError"
    ELSE "Ok"

\* the BountyAccount written by process_select_winner
WinnerCounted(bd) ==
    LET n == bd.current_winners + 1 IN
    [bd EXCEPT !.current_winners = n,
               !.status = IF n >= bd.winners_count THEN "Approved" ELSE bd.status]

SelectWinner(s, b, a, id, payout_amount) ==
    LET r == SelectWinnerCheck(s, b, a, id, payout_amount) IN
    /\ program = "audit_bounty"
    /\ last' = Call("select_winner", r)
    /\ IF r = "Ok"
       THEN /\ subs' = [subs EXCEPT ![a] = Selected(subs[a], payout_amount)]
            /\ bounty' = [bounty EXCEPT ![b] = WinnerCounted(bounty[b])]
       ELSE UNCHANGED <<subs, bounty>>
    /\ UNCHANGED <<program, votes, now, vault, received, abounty, keys>>

\* process_finalize_and_distribute: neither the bounty's nor the vault's
\* owner is tested
FinalizeCheck(s, b, v) ==
    IF ~BountyReadable(b) THEN "BorshIoError"
    ELSE IF ~bounty[b].initialized THEN "UninitializedAccount"
    ELSE IF bounty[b].creator # s THEN "UnauthorizedCreator"
    ELSE IF ~(now > bounty[b].deadline)
            /\ ~(bounty[b].current_winners >= bounty[b].winners_count)
         THEN "InvalidArgument"
    ELSE IF VaultPda(b) # v THEN "InvalidAccountData"
    ELSE IF vault[v] = 0 THEN "InsufficientFunds"
    ELSE TransferFromVault(v, vault[v])

FinalizeAndDistributeRemaining(s, b, v) ==
    LET r == FinalizeCheck(s, b, v) IN
    /\ program = "audit_bounty"
    /\ last' = Call("finalize_and_distribute_remaining", r)
    /\ IF r = "Ok"
       THEN /\ Pay(v, b, s, vault[v])
            /\ bounty' = [bounty EXCEPT ![b].status = "Claimed"]
       ELSE UNCHANGED <<vault, received, bounty>>
    /\ UNCHANGED <<program, votes, now, subs, abounty, keys>>

\* process_vote_on_submission: the bounty and the submission are read and
\* tested, the vote account is created under the seeds of (submission,
\* voter) when the program does not own it yet and is read when it does
VoteCheck(s, b, a, va, id) ==
    IF ~BountyReadable(b) THEN "BorshIoError"
    ELSE IF ~bounty[b].initialized THEN "UninitializedAccount"
    ELSE IF bounty[b].status # "Open" THEN "BountyNotOpen"
    ELSE IF ~SubOwned(a) THEN "InvalidAccountData"
    ELSE IF ~SubReadable(a) THEN "BorshIoError"
    ELSE IF ~SubInitialized(a) THEN "UninitializedAccount"
    ELSE IF subs[a].id # id THEN "InvalidArgument"
    ELSE IF ~VoteOwned(va) /\ VotePda(a, s) # va THEN "PrivilegeEscalation"
    ELSE IF VoteOwned(va) /\ ~VoteReadable(va) THEN "BorshIoError"
    ELSE "Ok"

\* existing_vote: the vote_type read from the vote account, None for a new one
ExistingVote(va) == IF VoteOwned(va) THEN votes[va].vote_type ELSE "None"

\* the counters of Submission sd after the existing vote is taken back
\* (never below zero) and the new one is added
Tallied(sd, existing, vote_type) ==
    LET up == IF existing = "Up" /\ sd.upvotes > 0 THEN sd.upvotes - 1 ELSE sd.upvotes
        down == IF existing = "Down" /\ sd.downvotes > 0
                THEN sd.downvotes - 1 ELSE sd.downvotes
    IN [sd EXCEPT !.upvotes = IF vote_type = "Up" THEN up + 1 ELSE up,
                  !.downvotes = IF vote_type = "Down" THEN down + 1 ELSE down]

\* the Vote written to the vote account, a new one in an account of
\* size_of::<Vote>() bytes
Recorded(s, b, a, va, vote_type) ==
    IF VoteOwned(va) THEN [votes[va] EXCEPT !.vote_type = vote_type]
    ELSE [voter |-> s, submission |-> a, bounty |-> b, vote_type |-> vote_type,
          space |-> VoteSize]

\* a vote instruction and what it returned, with its accounts and the
\* existing vote it read
VoteCall(r, s, a, va, vote_type, existing) ==
    [op |-> "vote_on_submission", result |-> r, voter |-> s, submission |-> a,
     record |-> va, vote |-> vote_type, existing |-> existing]

VoteOnSubmission(s, b, a, va, id, is_upvote) ==
    LET r == VoteCheck(s, b, a, va, id)
        vote_type == IF is_upvote THEN "Up" ELSE "Down"
        existing == IF r = "Ok" THEN ExistingVote(va) ELSE "None"
        sd == Tallied(subs[a], existing, vote_type)
    IN
    /\ program = "audit_bounty"
    /\ r = "Ok" => sd.upvotes <= MaxVotes /\ sd.downvotes <= MaxVotes
    /\ last' = VoteCall(r, s, a, va, vote_type, existing)
    /\ IF r = "Ok"
       THEN /\ votes' = [votes EXCEPT ![va] = Recorded(s, b, a, va, vote_type)]
            /\ subs' = [subs EXCEPT ![a] = sd]
       ELSE UNCHANGED <<votes, subs>>
    /\ UNCHANGED <<program, now, bounty, vault, received, abounty, keys>>

\* the accounts a caller may pass where a submission account is expected
SubInputs == {SubmissionPda(x, h, id) : x \in keys, h \in Users, id \in SubIds}
\* the accounts a caller may pass where a vote account is expected
VoteInputs == {VotePda(SubmissionPda(b, h, id), u) :
                  b \in keys, h \in Hunters, id \in SubIds, u \in Voters}

(***************************************************************************)
(* audit-bounty-anchor (lib.rs).  The account constraints of each          *)
(* #[derive(Accounts)] struct are checked field by field in the order of   *)
(* the struct, the seeds of an account before its `constraint`s; then the  *)
(* handler runs.                                                           *)
(***************************************************************************)

\* the accounts a caller may pass where the escrow account is expected
AEscrowInputs == EscrowKeys \cup BountyKeys

\* the accounts of the program as an instruction finds them: the Bounty
\* records, the lamports of every account and what each user was paid out
\* of each bounty.  XOn(L, ...) is what instruction X answers on the
\* accounts L, XDone(L, ...) the accounts its handler leaves.
Ledger == [abounty |-> abounty, vault |-> vault, received |-> received]

\* the instruction has succeeded and leaves the accounts L
Written(L) ==
    /\ abounty' = L.abounty
    /\ vault' = L.vault
    /\ received' = L.received

\* Account<'info, Bounty> at an address that holds no record: the account
\* is not initialized when the address holds no lamports either, and is
\* another program's (the System Program's) when it holds some
NoRecord(L, b) ==
    IF L.vault[b] > 0 THEN "AccountOwnedByWrongProgram"
    ELSE "AccountNotInitialized"

\* Rent::minimum_balance of the space of a Bounty account: 3480 lamports per
\* byte and year, two years, 128 bytes of account overhead
ABountyRent == (128 + ABountySpace) * 3480 * 2

\* the handlers' transfer out of the escrow: **escrow -= amt, **recipient += amt
PaidOut(L, e, b, to, amt) ==
    [L EXCEPT !.vault[e] = @ - amt, !.received[b][to] = @ + amt]

\* CreateBounty accounts on the accounts L
ACreateBountyOn(L, s, b, e) ==
    IF BountyPda(s) # b THEN "ConstraintSeeds"
    ELSE IF L.abounty[b].initialized THEN "AccountAlreadyInUse"
    ELSE IF EscrowPda(b, OwnProgram) # e THEN "ConstraintSeeds"
    ELSE "Ok"

\* what audit_bounty::create_bounty leaves: the bounty account created by
\* `init` with the rent of its record (lamports the address held before
\* count towards that rent, the creator pays what is missing; vault keeps
\* what an account holds above the rent of its record), the escrow funded
\* with amount by the creator, the new record in the bounty account
ACreateBountyDone(L, s, b, e, amount) ==
    LET held == IF L.vault[b] > ABountyRent THEN L.vault[b] - ABountyRent ELSE 0
        M == [L EXCEPT !.vault[b] = held]
    IN [M EXCEPT !.vault[e] = @ + amount, !.abounty[b] = NewABounty(s, amount)]

\* CreateBounty accounts with init_if_needed for init on the bounty
ACreateBountyCheckInitIfNeeded(s, b, e) ==
    IF BountyPda(s) # b THEN "ConstraintSeeds"
    ELSE IF EscrowPda(b, OwnProgram) # e THEN "ConstraintSeeds"
    ELSE "Ok"

\* CreateBounty accounts: bounty is `init` at the address of (creator, nonce)
ACreateBountyCheck(s, b, e) == ACreateBountyOn(Ledger, s, b, e)

\* create_bounty that writes the record and leaves out the transfer into
\* the escrow
ACreateBountyNoTransfer(s, b, e, amount) ==
    LET r == ACreateBountyCheck(s, b, e) IN
    /\ program = "audit_bounty_anchor"
    /\ last' = Call("create_bounty", r)
    /\ IF r = "Ok"
       THEN abounty' = [abounty EXCEPT ![b] = NewABounty(s, amount)]
       ELSE UNCHANGED abounty
    /\ UNCHANGED <<program, votes, now, bounty, vault, received, subs, keys>>

\* audit_bounty::create_bounty
ACreateBounty(s, b, e, amount) ==
    LET r == ACreateBountyCheck(s, b, e) IN
    /\ program = "audit_bounty_anchor"
    /\ last' = Call("create_bounty", r)
    /\ IF r = "Ok"
       THEN Written(ACreateBountyDone(Ledger, s, b, e, amount))
       ELSE UNCHANGED <<vault, received, abounty>>
    /\ UNCHANGED <<program, votes, now, bounty, subs, keys>>

\* the Bounty audit_bounty::submit_report writes
Reported(bd, s, len) ==
    [bd EXCEPT !.auditor = s, !.report_uri = Some(len), !.status = "Submitted"]

\* SubmitReport accounts, the length check and the exit write on the
\* accounts L
SubmitReportOn(L, s, b, len) ==
    IF ~L.abounty[b].initialized THEN NoRecord(L, b)
    ELSE IF L.abounty[b].status # "Open" THEN "BountyNotOpen"
    ELSE IF L.abounty[b].auditor # None THEN "AuditorAlreadyAssigned"
    ELSE IF len > MAX_REPORT_URI_SIZE THEN "ReportLinkTooLong"
    ELSE IF ABountyLen(Reported(L.abounty[b], s, len)) > ABountySpace
         THEN "AccountDidNotSerialize"
    ELSE "Ok"

\* what audit_bounty::submit_report leaves
SubmitReportDone(L, s, b, len) ==
    [L EXCEPT !.abounty[b] = Reported(@, s, len)]

\* SubmitReport accounts without the status constraint
SubmitReportCheckNoStatus(s, b, len) ==
    IF ~abounty[b].initialized THEN NoRecord(Ledger, b)
    ELSE IF abounty[b].auditor # None THEN "AuditorAlreadyAssigned"
    ELSE IF len > MAX_REPORT_URI_SIZE THEN "ReportLinkTooLong"
    ELSE IF ABountyLen(Reported(abounty[b], s, len)) > ABountySpace
         THEN "AccountDidNotSerialize"
    ELSE "Ok"

\* SubmitReport accounts and handler without the length check
SubmitReportCheckNoLength(s, b, len) ==
    IF ~abounty[b].initialized THEN NoRecord(Ledger, b)
    ELSE IF abounty[b].status # "Open" THEN "BountyNotOpen"
    ELSE IF abounty[b].auditor # None THEN "AuditorAlreadyAssigned"
    ELSE IF ABountyLen(Reported(abounty[b], s, len)) > ABountySpace
         THEN "AccountDidNotSerialize"
    ELSE "Ok"

\* SubmitReport accounts, then the length check of
\* audit_bounty::submit_report, then the write of the updated record into
\* the account when the instruction exits
SubmitReportCheck(s, b, len) == SubmitReportOn(Ledger, s, b, len)

\* audit_bounty::submit_report
SubmitReport(s, b, len) ==
    LET r == SubmitReportCheck(s, b, len) IN
    /\ program = "audit_bounty_anchor"
    /\ last' = Call("submit_report", r)
    /\ IF r = "Ok"
       THEN Written(SubmitReportDone(Ledger, s, b, len))
       ELSE UNCHANGED <<vault, received, abounty>>
    /\ UNCHANGED <<program, votes, now, bounty, subs, keys>>

\* ApproveAndRelease accounts without the seeds constraint of the escrow
ApproveAndReleaseOnAnyEscrow(L, s, b, auditor, e) ==
    IF ~L.abounty[b].initialized THEN NoRecord(L, b)
    ELSE IF s # L.abounty[b].creator THEN "OnlyCreatorCanPerform"
    ELSE IF L.abounty[b].status # "Submitted" THEN "BountyNotInReview"
    ELSE IF auditor # L.abounty[b].auditor THEN "InvalidEscrowAccount"
    ELSE IF L.vault[e] < L.abounty[b].amount THEN "InsufficientFunds"
    ELSE "Ok"

\* ApproveAndRelease accounts and the transfer on the accounts L
ApproveAndReleaseOn(L, s, b, auditor, e) ==
    IF ~L.abounty[b].initialized THEN NoRecord(L, b)
    ELSE IF s # L.abounty[b].creator THEN "OnlyCreatorCanPerform"
    ELSE IF L.abounty[b].status # "Submitted" THEN "BountyNotInReview"
    ELSE IF auditor # L.abounty[b].auditor THEN "InvalidEscrowAccount"
    ELSE IF EscrowPda(b, OwnProgram) # e THEN "ConstraintSeeds"
    ELSE IF L.vault[e] < L.abounty[b].amount THEN "InsufficientFunds"
    ELSE "Ok"

\* what audit_bounty::approve_and_release leaves: bounty.amount moved from
\* the escrow to the auditor, the status Approved
ApproveAndReleaseDone(L, s, b, auditor, e) ==
    [PaidOut(L, e, b, auditor, L.abounty[b].amount)
        EXCEPT !.abounty[b].status = "Approved"]

\* ApproveAndRelease accounts without the creator constraint
ApproveAndReleaseCheckAnySigner(s, b, auditor, e) ==
    IF ~abounty[b].initialized THEN NoRecord(Ledger, b)
    ELSE IF abounty[b].status # "Submitted" THEN "BountyNotInReview"
    ELSE IF auditor # abounty[b].auditor THEN "InvalidEscrowAccount"
    ELSE IF EscrowPda(b, OwnProgram) # e THEN "ConstraintSeeds"
    ELSE IF vault[e] < abounty[b].amount THEN "InsufficientFunds"
    ELSE "Ok"

\* ApproveAndRelease accounts without the auditor constraint
ApproveAndReleaseCheckAnyRecipient(s, b, auditor, e) ==
    IF ~abounty[b].initialized THEN NoRecord(Ledger, b)
    ELSE IF s # abounty[b].creator THEN "OnlyCreatorCanPerform"
    ELSE IF abounty[b].status # "Submitted" THEN "BountyNotInReview"
    ELSE IF EscrowPda(b, OwnProgram) # e THEN "ConstraintSeeds"
    ELSE IF vault[e] < abounty[b].amount THEN "InsufficientFunds"
    ELSE "Ok"

\* ApproveAndRelease accounts, then the transfer of audit_bounty::approve_and_release
ApproveAndReleaseCheck(s, b, auditor, e) ==
    ApproveAndReleaseOn(Ledger, s, b, auditor, e)

\* approve_and_release that clears the amount of the bounty it has paid
ApproveAndReleaseClearsAmount(s, b, auditor, e) ==
    LET r == ApproveAndReleaseCheck(s, b, auditor, e) IN
    /\ program = "audit_bounty_anchor"
    /\ last' = Call("approve_and_release", r)
    /\ IF r = "Ok"
       THEN /\ Pay(e, b, auditor, abounty[b].amount)
            /\ abounty' = [abounty EXCEPT ![b].status = "Approved", ![b].amount = 0]
       ELSE UNCHANGED <<vault, received, abounty>>
    /\ UNCHANGED <<program, votes, now, bounty, subs, keys>>

\* audit_bounty::approve_and_release
ApproveAndRelease(s, b, auditor, e) ==
    LET r == ApproveAndReleaseCheck(s, b, auditor, e) IN
    /\ program = "audit_bounty_anchor"
    /\ last' = Call("approve_and_release", r)
    /\ IF r = "Ok"
       THEN Written(ApproveAndReleaseDone(Ledger, s, b, auditor, e))
       ELSE UNCHANGED <<vault, received, abounty>>
    /\ UNCHANGED <<program, votes, now, bounty, subs, keys>>

\* RejectReport accounts on the accounts L
RejectReportOn(L, s, b) ==
    IF ~L.abounty[b].initialized THEN NoRecord(L, b)
    ELSE IF s # L.abounty[b].creator THEN "OnlyCreatorCanPerform"
    ELSE IF L.abounty[b].status # "Submitted" THEN "BountyNotInReview"
    ELSE "Ok"

\* what audit_bounty::reject_report leaves
RejectReportDone(L, s, b) ==
    [L EXCEPT !.abounty[b].auditor = None,
              !.abounty[b].report_uri = NoneInt,
              !.abounty[b].status = "Open"]

\* RejectReport accounts without the creator constraint
RejectReportCheckAnySigner(s, b) ==
    IF ~abounty[b].initialized THEN NoRecord(Ledger, b)
    ELSE IF abounty[b].status # "Submitted" THEN "BountyNotInReview"
    ELSE "Ok"

\* RejectReport accounts without the status constraint
RejectReportCheckNoStatus(s, b) ==
    IF ~abounty[b].initialized THEN NoRecord(Ledger, b)
    ELSE IF s # abounty[b].creator THEN "OnlyCreatorCanPerform"
    ELSE "Ok"

\* RejectReport accounts
RejectReportCheck(s, b) == RejectReportOn(Ledger, s, b)

\* audit_bounty::reject_report
RejectReport(s, b) ==
    LET r == RejectReportCheck(s, b) IN
    /\ program = "audit_bounty_anchor"
    /\ last' = Call("reject_report", r)
    /\ IF r = "Ok"
       THEN Written(RejectReportDone(Ledger, s, b))
       ELSE UNCHANGED <<vault, received, abounty>>
    /\ UNCHANGED <<program, votes, now, bounty, subs, keys>>

\* CancelBounty accounts and the transfer on the accounts L
ACancelBountyOn(L, s, b, e) ==
    IF ~L.abounty[b].initialized THEN NoRecord(L, b)
    ELSE IF s # L.abounty[b].creator THEN "OnlyCreatorCanPerform"
    ELSE IF L.abounty[b].status # "Open" THEN "BountyNotOpen"
    ELSE IF EscrowPda(b, OwnProgram) # e THEN "ConstraintSeeds"
    ELSE IF L.vault[e] < L.abounty[b].amount THEN "InsufficientFunds"
    ELSE "Ok"

\* what audit_bounty::cancel_bounty leaves: bounty.amount moved from the
\* escrow to the creator, the status Cancelled
ACancelBountyDone(L, s, b, e) ==
    [PaidOut(L, e, b, s, L.abounty[b].amount)
        EXCEPT !.abounty[b].status = "Cancelled"]

\* CancelBounty accounts without the seeds constraint of the escrow
ACancelBountyCheckAnyEscrow(s, b, e) ==
    IF ~abounty[b].initialized THEN NoRecord(Ledger, b)
    ELSE IF s # abounty[b].creator THEN "OnlyCreatorCanPerform"
    ELSE IF abounty[b].status # "Open" THEN "BountyNotOpen"
    ELSE IF vault[e] < abounty[b].amount THEN "InsufficientFunds"
    ELSE "Ok"

\* CancelBounty accounts without the status constraint
ACancelBountyCheckNoStatus(s, b, e) ==
    IF ~abounty[b].initialized THEN NoRecord(Ledger, b)
    ELSE IF s # abounty[b].creator THEN "OnlyCreatorCanPerform"
    ELSE IF EscrowPda(b, OwnProgram) # e THEN "ConstraintSeeds"
    ELSE IF vault[e] < abounty[b].amount THEN "InsufficientFunds"
    ELSE "Ok"

\* CancelBounty accounts with the status constraint of the release
ACancelBountyCheckWrongStatus(s, b, e) ==
    IF ~abounty[b].initialized THEN NoRecord(Ledger, b)
    ELSE IF s # abounty[b].creator THEN "OnlyCreatorCanPerform"
    ELSE IF abounty[b].status # "Submitted" THEN "BountyNotInReview"
    ELSE IF EscrowPda(b, OwnProgram) # e THEN "ConstraintSeeds"
    ELSE IF vault[e] < abounty[b].amount THEN "InsufficientFunds"
    ELSE "Ok"

\* CancelBounty accounts, then the transfer of audit_bounty::cancel_bounty
ACancelBountyCheck(s, b, e) == ACancelBountyOn(Ledger, s, b, e)

\* audit_bounty::cancel_bounty
ACancelBounty(s, b, e) ==
    LET r == ACancelBountyCheck(s, b, e) IN
    /\ program = "audit_bounty_anchor"
    /\ last' = Call("cancel_bounty", r)
    /\ IF r = "Ok"
       THEN Written(ACancelBountyDone(Ledger, s, b, e))
       ELSE UNCHANGED <<vault, received, abounty>>
    /\ UNCHANGED <<program, votes, now, bounty, subs, keys>>

\* auto_release is not an instruction of the program: #[program] mod
\* audit_bounty declares create_bounty, submit_report, approve_and_release,
\* reject_report and cancel_bounty, and none of them refers to the handler of
\* instructions/auto_release.rs.  An instruction of that name is answered by
\* the dispatcher before any account is read.
AutoRelease(s, b, auditor, e) ==
    /\ program = "audit_bounty_anchor"
    /\ last' = Call("auto_release", "InstructionFallbackNotFound")
    /\ UNCHANGED <<program, votes, now, bounty, subs, keys, vault, received, abounty>>


NativeNext ==
    \/ \E s \in Users, b \in keys, v \in EscrowInputs, amount \in Amounts,
          deadline \in Deadlines, wc \in WinnerOpts :
          CreateBounty(s, b, v, amount, deadline, wc)
    \/ \E s \in Users, b \in keys : SubmitWork(s, b)
    \/ \E s \in Users, b \in keys, h \in Users, ha \in Users, id \in SubIds :
          \E a \in {SubmissionPda(x, h, id) : x \in keys} :
          ApproveSubmission(s, b, h, ha, id, a)
    \/ \E s \in Users, b \in keys, v \in EscrowInputs : ClaimBounty(s, b, v)
    \/ \E s \in Users, b \in keys, v \in EscrowInputs : CancelBounty(s, b, v)
    \/ \E s \in Users, b \in keys, v \in EscrowInputs : CancelBountyEmergency(s, b, v)
    \/ \E s \in Users, b \in keys, a \in SubInputs, id \in SubIds,
          sev \in Severities, desc \in DescLens, ipfs \in HashLens :
          RecordSubmission(s, b, a, id, sev, desc, ipfs)
    \/ \E s \in Users, b \in keys, a \in SubInputs, id \in SubIds, p \in Payouts :
          SelectWinner(s, b, a, id, p)
    \/ \E s \in Users, b \in keys, v \in EscrowInputs :
          FinalizeAndDistributeRemaining(s, b, v)
    \/ \E s \in Voters, b \in keys, a \in SubInputs, va \in VoteInputs,
          id \in SubIds, is_upvote \in BOOLEAN :
          VoteOnSubmission(s, b, a, va, id, is_upvote)

AnchorNext ==
    \/ \E s \in Users, b \in keys, e \in AEscrowInputs, amount \in Amounts :
          ACreateBounty(s, b, e, amount)
    \/ \E s \in Users, b \in keys, len \in UriLens : SubmitReport(s, b, len)
    \/ \E s \in Users, b \in keys, u \in Users, e \in AEscrowInputs :
          ApproveAndRelease(s, b, u, e)
    \/ \E s \in Users, b \in keys : RejectReport(s, b)
    \/ \E s \in Users, b \in keys, e \in AEscrowInputs : ACancelBounty(s, b, e)
    \/ \E s \in Users, b \in keys, u \in Users, e \in AEscrowInputs :
          AutoRelease(s, b, u, e)

Next ==
    \/ Tick
    \/ NativeNext
    \/ AnchorNext

Spec == Init /\ [][Next]_vars

(***************************************************************************)
(* Two bounties.  Neither alice's nor bob's bounty exists at the start,    *)
(* and the callers work with both addresses, the escrow, submission and    *)
(* vote accounts of either among the accounts they pass.  The invocations  *)
(* are concurrent: the clock stays at its value.                           *)
(***************************************************************************)
InitTwo ==
    /\ program \in {"audit_bounty", "audit_bounty_anchor"}
    /\ now = 0
    /\ keys = BountyKeys
    /\ bounty = [b \in BountyKeys |-> NoBounty]
    /\ abounty = [b \in BountyKeys |-> NoABounty]
    /\ vault = [v \in Accounts |-> 0]
    /\ received = [b \in BountyKeys |-> [u \in Users |-> 0]]
    /\ subs = [a \in SubKeys |-> NoSubmission]
    /\ votes = [va \in VoteKeys |-> NoVote]
    /\ last = NoCall

NextTwo ==
    \/ NativeNext
    \/ AnchorNext

SpecTwo == InitTwo /\ [][NextTwo]_vars

(***************************************************************************)
(* Properties.                                                             *)
(***************************************************************************)
RECURSIVE SumOver(_, _)
SumOver(S, f) ==
    IF S = {} THEN 0
    ELSE LET x == CHOOSE y \in S : TRUE IN f[x] + SumOver(S \ {x}, f)

\* the total value transferred out of the escrow pool of bounty b so far
TotalReceived(b) == SumOver(Users, received[b])

Native == program = "audit_bounty"
Anchor == program = "audit_bounty_anchor"
\* everything but the outcome of the latest instruction
store == <<program, now, bounty, vault, received, subs, votes, abounty, keys>>

\* C1. Conservation: for every bounty of either program, in every
\* reachable state, the escrow pool balance plus the total value already
\* transferred out of the pool equals the amount recorded at creation, and
\* the pool never goes below zero.
C1_Conservation ==
    /\ Native =>
        \A b \in BountyKeys :
            bounty[b].initialized =>
                /\ vault[VaultPda(b)] >= 0
                /\ vault[VaultPda(b)] + TotalReceived(b) = bounty[b].amount
    /\ Anchor =>
        \A b \in BountyKeys :
            abounty[b].initialized =>
                /\ vault[EscrowPda(b, OwnProgram)] >= 0
                /\ vault[EscrowPda(b, OwnProgram)] + TotalReceived(b) = abounty[b].amount

\* a bounty was funded and its pool has since been paid out
C1_Witness ==
    /\ Anchor
    /\ \E b \in keys :
        /\ abounty[b].initialized
        /\ abounty[b].amount > 0
        /\ TotalReceived(b) = abounty[b].amount
        /\ vault[EscrowPda(b, OwnProgram)] = 0

\* C2. Single custody path: in both programs, whenever value leaves a
\* bounty's escrow pool, the receiver is the address recorded in the bounty
\* as its assignee (hunter, auditor) or as its creator at that moment.
C2_SingleCustodyPath ==
    [][\A b \in BountyKeys, u \in Users :
          received'[b][u] > received[b][u] =>
              \/ Native /\ (u = bounty[b].hunter \/ u = bounty[b].creator)
              \/ Anchor /\ (u = abounty[b].auditor \/ u = abounty[b].creator)]_vars

\* an assignee who is not the creator has been paid out of the pool
C2_Witness ==
    \E b \in keys, u \in Users :
        /\ Anchor
        /\ received[b][u] > 0
        /\ abounty[b].auditor = u
        /\ abounty[b].creator # u

\* the names under which value is moved out of an escrow (auto_release is
\* sent to the single-winner program, which has no instruction of that name)
NativeMoveOps ==
    {"claim_bounty", "cancel_bounty", "cancel_bounty_emergency",
     "finalize_and_distribute_remaining"}
AnchorMoveOps == {"approve_and_release", "cancel_bounty", "auto_release"}

\* the instructions of the two programs that move value out of an escrow,
\* invoked by s on bounty b with the account v passed as the escrow
NativeValueMove(s, b, v) ==
    \/ last'.op = "claim_bounty" /\ ClaimBounty(s, b, v)
    \/ last'.op = "cancel_bounty" /\ CancelBounty(s, b, v)
    \/ last'.op = "cancel_bounty_emergency" /\ CancelBountyEmergency(s, b, v)
    \/ last'.op = "finalize_and_distribute_remaining"
       /\ FinalizeAndDistributeRemaining(s, b, v)

AnchorValueMove(s, b, u, e) ==
    \/ last'.op = "approve_and_release" /\ ApproveAndRelease(s, b, u, e)
    \/ last'.op = "cancel_bounty" /\ ACancelBounty(s, b, e)
    \/ last'.op = "auto_release" /\ AutoRelease(s, b, u, e)

\* the outcome of the same call with the derived escrow account
AnchorWithDerived(s, b, u) ==
    CASE last'.op = "approve_and_release" ->
            ApproveAndReleaseCheck(s, b, u, EscrowPda(b, OwnProgram))
      [] last'.op = "cancel_bounty" ->
            ACancelBountyCheck(s, b, EscrowPda(b, OwnProgram))
      [] OTHER -> "InstructionFallbackNotFound"

\* the outcome of the same call with the derived vault account
NativeWithDerived(s, b) ==
    CASE last'.op = "claim_bounty" -> ClaimBountyCheck(s, b, VaultPda(b))
      [] last'.op = "cancel_bounty" -> CancelBountyCheck(s, b, VaultPda(b))
      [] last'.op = "cancel_bounty_emergency" ->
            CancelBountyEmergencyCheck(s, b, VaultPda(b))
      [] OTHER -> FinalizeCheck(s, b, VaultPda(b))

\* C3 as stated, for the calls in which nothing but the escrow account is
\* wrong (the same call with the derived escrow succeeds): a value-moving
\* instruction given an escrow account other than the one derived from the
\* bounty fails with InvalidEscrowAccount, moves no value and changes no
\* record.
C3_Original ==
    [][/\ Native /\ last'.op \in NativeMoveOps =>
            \A s \in Users, b \in keys :
              \A v \in EscrowInputs \ {VaultPda(b)} :
                NativeValueMove(s, b, v) /\ NativeWithDerived(s, b) = "Ok" =>
                    last'.result = "InvalidEscrowAccount" /\ UNCHANGED store
       /\ Anchor /\ last'.op \in AnchorMoveOps =>
            \A s \in Users, b \in keys, u \in Users :
              \A e \in AEscrowInputs \ {EscrowPda(b, OwnProgram)} :
                AnchorValueMove(s, b, u, e) /\ AnchorWithDerived(s, b, u) = "Ok" =>
                    last'.result = "InvalidEscrowAccount" /\ UNCHANGED store]_vars

\* C3, amended. A value-moving instruction given an escrow account other than
\* the one derived from the bounty fails, moves no value and changes no
\* record.  The error is not InvalidEscrowAccount for that reason: when the
\* call would succeed with the derived escrow, approve_and_release and
\* cancel_bounty of the single-winner program return the seeds-constraint
\* error of the framework.
C3_WrongEscrowFails ==
    [][/\ Native /\ last'.op \in NativeMoveOps =>
            \A s \in Users, b \in keys :
              \A v \in EscrowInputs \ {VaultPda(b)} :
                NativeValueMove(s, b, v) =>
                    /\ last'.result \notin {"Ok", "InvalidEscrowAccount"}
                    /\ UNCHANGED store
       /\ Anchor /\ last'.op \in AnchorMoveOps =>
            \A s \in Users, b \in keys, u \in Users :
              \A e \in AEscrowInputs \ {EscrowPda(b, OwnProgram)} :
                AnchorValueMove(s, b, u, e) =>
                    /\ last'.result # "Ok"
                    /\ UNCHANGED store
                    /\ AnchorWithDerived(s, b, u) = "Ok"
                         => last'.result = "ConstraintSeeds"]_vars

\* a release that passed every check before the escrow check was refused
\* for the escrow account it was given, another bounty's funded escrow
C3_Witness ==
    /\ Anchor
    /\ last = Call("approve_and_release", "ConstraintSeeds")
    /\ \E b \in keys :
        /\ abounty[b].status = "Submitted"
        /\ vault[EscrowPda(b, OwnProgram)] > 0
    /\ \E b \in Others : vault[EscrowPda(b, OwnProgram)] > 0

\* a create_bounty of the multi-winner program that met every requirement
\* of create_bounty: the signer is the creator the bounty address is derived
\* from, nothing was created at that address before, amount > 0, the
\* deadline was after the clock at the call, and the vault is the bounty's
ValidCreate(c) ==
    /\ Native
    /\ c.op = "create_bounty"
    /\ c.fresh
    /\ c.amount > 0
    /\ c.deadline > c.at
    /\ c.bounty = BountyPda(c.signer)
    /\ c.vault = VaultPda(c.bounty)

\* C4. claim_bounty fails with BountyNotApproved when the status is not
\* Approved: on the bounty of a create_bounty that met every requirement,
\* which is Open, a claim_bounty by any signer with the bounty's vault is
\* answered BountyNotApproved and changes nothing.
C4_ClaimAfterCreate ==
    [][ValidCreate(last) =>
        \A s \in Users :
            ClaimBounty(s, last.bounty, last.vault) =>
                last'.result = "BountyNotApproved" /\ UNCHANGED store]_vars

\* C6. Claimed and Cancelled are terminal: once the status of a bounty is
\* Claimed or Cancelled (in the single-winner program, whose paid state is
\* Approved: Approved or Cancelled), no instruction changes its record
\* (status, amount, assignee, winners selected) or moves value out of its
\* escrow pool.
C6_Terminal ==
    [][/\ \A b \in BountyKeys :
            bounty[b].initialized /\ bounty[b].status \in {"Claimed", "Cancelled"} =>
                /\ bounty'[b] = bounty[b]
                /\ vault'[VaultPda(b)] = vault[VaultPda(b)]
                /\ received'[b] = received[b]
       /\ \A b \in BountyKeys :
            abounty[b].initialized /\ abounty[b].status \in {"Approved", "Cancelled"} =>
                /\ abounty'[b] = abounty[b]
                /\ vault'[EscrowPda(b, OwnProgram)] = vault[EscrowPda(b, OwnProgram)]
                /\ received'[b] = received[b]]_vars

\* a cancel was tried on a bounty that is already paid or cancelled
C6_Witness ==
    /\ Anchor
    /\ last = Call("cancel_bounty", "BountyNotOpen")
    /\ \E b \in keys : abounty[b].status \in {"Approved", "Cancelled"}

\* the status of the specification's state machine that a stored status
\* stands for: the single-winner program has no Claimed, its paid state is
\* Approved, and its Submitted is the state between Open and paid
NativeStage(st) == IF st = "Approved" THEN "Submitted/Approved" ELSE st
AnchorStage(st) ==
    IF st = "Submitted" THEN "Submitted/Approved"
    ELSE IF st = "Approved" THEN "Claimed" ELSE st

SpecEdges ==
    {<<"Open", "Submitted/Approved">>, <<"Submitted/Approved", "Claimed">>,
     <<"Open", "Cancelled">>}
RejectEdge == <<"Submitted/Approved", "Open">>

\* C7. Every status change follows Open to Submitted/Approved,
\* Submitted/Approved to Claimed, Open to Cancelled or, in the single-winner
\* program only, Submitted to Open by reject; in particular none goes from
\* Open to Claimed.
C7_StatusEdges ==
    [][/\ \A b \in BountyKeys :
            bounty[b].initialized /\ bounty'[b].status # bounty[b].status =>
                <<NativeStage(bounty[b].status), NativeStage(bounty'[b].status)>>
                    \in SpecEdges
       /\ \A b \in BountyKeys :
            abounty[b].initialized /\ abounty'[b].status # abounty[b].status =>
                \/ <<AnchorStage(abounty[b].status), AnchorStage(abounty'[b].status)>>
                       \in SpecEdges
                \/ /\ last'.op = "reject_report"
                   /\ <<AnchorStage(abounty[b].status), AnchorStage(abounty'[b].status)>>
                          = RejectEdge]_vars

\* the creator has rejected a report: the bounty went from Open to Submitted
\* and is Open again
C7_Witness ==
    /\ Anchor
    /\ last = Call("reject_report", "Ok")
    /\ \E b \in keys : abounty[b].initialized /\ abounty[b].status = "Open"

\* C8. finalize_and_distribute_remaining signed by the creator fails with
\* InvalidArgument when neither now > deadline nor winners selected >=
\* quota holds and succeeds when one of them holds and the pool is not
\* empty, transferring the pool's whole balance to the creator and setting
\* the status to Claimed: so it does on the bounty of a create_bounty that
\* met every requirement, which has no winner selected and holds amount.
C8_FinalizeAfterCreate ==
    [][ValidCreate(last) =>
        LET quota == IF last.winners_count = NoneInt THEN 1 ELSE last.winners_count[1]
            met == now > last.deadline \/ 0 >= quota
        IN
        FinalizeAndDistributeRemaining(last.signer, last.bounty, last.vault) =>
            /\ ~met => last'.result = "InvalidArgument" /\ UNCHANGED store
            /\ met =>
                /\ last'.result = "Ok"
                /\ received'[last.bounty][last.signer]
                      = received[last.bounty][last.signer] + last.amount
                /\ vault'[last.vault] = 0
                /\ bounty'[last.bounty].status = "Claimed"]_vars

\* C9. For an Open bounty and its creator as caller, cancel_bounty fails
\* with DeadlineNotPassed and changes nothing whenever now <= deadline, and
\* succeeds whenever now > deadline, refunding the amount to the creator and
\* setting the status to Cancelled: so it does on the bounty of a
\* create_bounty that met every requirement.
C9_CancelAfterCreate ==
    [][ValidCreate(last) =>
        (CancelBounty(last.signer, last.bounty, last.vault) =>
            /\ now <= last.deadline =>
                last'.result = "DeadlineNotPassed" /\ UNCHANGED store
            /\ now > last.deadline =>
                /\ last'.result = "Ok"
                /\ received'[last.bounty][last.signer]
                      = received[last.bounty][last.signer] + last.amount
                /\ bounty'[last.bounty].status = "Cancelled")]_vars

\* C10. cancel_bounty_emergency checks no deadline: on the Open bounty of a
\* create_bounty that met every requirement it succeeds for the creator at
\* every clock value, before or after the deadline, refunding the amount,
\* and fails with UnauthorizedCreator for every other caller.
C10_EmergencyAfterCreate ==
    [][ValidCreate(last) =>
        \A s \in Users :
            CancelBountyEmergency(s, last.bounty, last.vault) =>
                /\ s # last.signer =>
                    last'.result = "UnauthorizedCreator" /\ UNCHANGED store
                /\ s = last.signer =>
                    /\ last'.result = "Ok"
                    /\ received'[last.bounty][s] = received[last.bounty][s] + last.amount
                    /\ bounty'[last.bounty].status = "Cancelled"]_vars

\* C11. A successful cancel (cancel_bounty, cancel_bounty_emergency, or
\* cancel_bounty of the single-winner program) is signed by the creator,
\* transfers the whole balance of the bounty's escrow pool to the creator,
\* leaves the pool empty and sets the status to Cancelled.
C11_CancelRefund ==
    [][last'.result = "Ok" /\ last'.op \in {"cancel_bounty", "cancel_bounty_emergency"} =>
        /\ Native =>
            \A s \in Users, b \in keys, v \in EscrowInputs :
                CancelBounty(s, b, v) \/ CancelBountyEmergency(s, b, v) =>
                    /\ s = bounty[b].creator
                    /\ v = VaultPda(b)
                    /\ vault'[v] = 0
                    /\ received'[b][s] = received[b][s] + vault[v]
                    /\ bounty'[b].status = "Cancelled"
        /\ Anchor =>
            \A s \in Users, b \in keys, e \in AEscrowInputs :
                ACancelBounty(s, b, e) =>
                    /\ s = abounty[b].creator
                    /\ e = EscrowPda(b, OwnProgram)
                    /\ vault'[e] = 0
                    /\ received'[b][s] = received[b][s] + vault[e]
                    /\ abounty'[b].status = "Cancelled"]_vars

\* the creator of a funded single-winner bounty has cancelled it
C11_Witness ==
    /\ Anchor
    /\ last = Call("cancel_bounty", "Ok")
    /\ \E b \in keys :
        /\ abounty[b].status = "Cancelled"
        /\ abounty[b].amount > 0
        /\ vault[EscrowPda(b, OwnProgram)] = 0
        /\ received[b][abounty[b].creator] = abounty[b].amount

\* create_bounty of the multi-winner program as C12 states it: the
\* requirements are the signature of the creator the bounty address is
\* derived from, amount > 0 and deadline > now
C12_NativeCreate ==
    \A s \in Users, b \in keys, v \in EscrowInputs, amount \in Amounts,
       deadline \in Deadlines, wc \in WinnerOpts :
        CreateBounty(s, b, v, amount, deadline, wc) =>
            /\ amount = 0 => last'.result = "InvalidBountyAmount"
            /\ amount > 0 /\ deadline <= now => last'.result = "InvalidDeadline"
            /\ last'.result # "Ok" => UNCHANGED store
            /\ /\ amount > 0 /\ deadline > now
               /\ b = BountyPda(s) /\ v = VaultPda(b) /\ ~BountyOwned(b)
               => last'.result = "Ok"
            /\ last'.result = "Ok" =>
                /\ amount > 0 /\ deadline > now
                /\ bounty'[b].creator = s
                /\ bounty'[b].amount = amount
                /\ bounty'[b].status = "Open"
                /\ bounty'[b].current_winners = 0
                /\ vault'[VaultPda(b)] = amount

\* create_bounty of the single-winner program as C12 states it (it takes no
\* deadline)
C12_AnchorCreate ==
    \A s \in Users, b \in keys, e \in AEscrowInputs, amount \in Amounts :
        ACreateBounty(s, b, e, amount) =>
            /\ amount = 0 => last'.result # "Ok"
            /\ amount = 0 /\ ACreateBountyCheck(s, b, e) = "Ok" =>
                  last'.result = "InvalidBountyAmount"
            /\ last'.result # "Ok" => UNCHANGED store
            /\ last'.result = "Ok" =>
                /\ amount > 0
                /\ abounty'[b].creator = s
                /\ abounty'[b].amount = amount
                /\ abounty'[b].status = "Open"
                /\ vault'[EscrowPda(b, OwnProgram)] = amount

\* C12. create_bounty fails with InvalidBountyAmount when amount = 0 and
\* with InvalidDeadline when deadline <= now, then allocating no record and
\* moving no value; signed by the creator with amount > 0 and deadline > now
\* it succeeds and leaves the bounty Open with no winner selected and the
\* escrow pool holding amount.  Stated for create_bounty of both programs.
C12_CreateBounty ==
    [][last'.op = "create_bounty" =>
        /\ Native => C12_NativeCreate
        /\ Anchor => C12_AnchorCreate]_vars

\* the part of C12 about the multi-winner program
C12_NativeHalf == [][last'.op = "create_bounty" /\ Native => C12_NativeCreate]_vars

\* C13. create_bounty against an already-initialized bounty record fails
\* with BountyAlreadyInitialized and changes nothing: so does a second
\* create_bounty with valid arguments on the address of a create_bounty
\* that met every requirement.
C13_CreateTwice ==
    [][ValidCreate(last) =>
        \A amount \in Amounts \ {0}, deadline \in Deadlines, wc \in WinnerOpts :
            /\ deadline > now
            /\ CreateBounty(last.signer, last.bounty, last.vault, amount, deadline, wc)
            => last'.result = "BountyAlreadyInitialized" /\ UNCHANGED store]_vars

\* C19. record_submission fails with an argument error when severity is
\* outside 1..5 and succeeds on an Open bounty when it is inside and the
\* (bounty, author, id) record is new, writing a submission with upvotes =
\* downvotes = 0, status Pending, is_winner false and no payout_amount: so
\* it does on the bounty of a create_bounty that met every requirement, for
\* any author, with the submission account derived for the author and a
\* content reference of at most 100 bytes.
C19_RecordAfterCreate ==
    [][ValidCreate(last) =>
        \A s \in Users, id \in SubIds, severity \in Severities, desc \in DescLens,
           ipfs \in HashLens :
            LET a == SubmissionPda(last.bounty, s, id) IN
            RecordSubmission(s, last.bounty, a, id, severity, desc, ipfs) =>
                /\ severity \notin 1..5 =>
                    last'.result = "InvalidArgument" /\ UNCHANGED store
                /\ severity \in 1..5 /\ ipfs <= MAX_REPORT_URI_SIZE =>
                    /\ last'.result = "Ok"
                    /\ subs'[a].auditor = s
                    /\ subs'[a].upvotes = 0 /\ subs'[a].downvotes = 0
                    /\ subs'[a].status = "Pending"
                    /\ ~subs'[a].is_winner
                    /\ subs'[a].payout_amount = NoneInt]_vars

\* C25. auto_release can be invoked by any signer; it succeeds only on a
\* Submitted bounty with now >= created_at + AUTO_RELEASE_DEADLINE; on a
\* Submitted bounty it fails with DeadlineNotReached when invoked earlier;
\* invoked by any signer after the deadline with the recorded auditor and
\* the escrow account of the bounty it succeeds; a success transfers the
\* bounty amount from the escrow to the recorded auditor and sets the status
\* to Approved.
C25_AutoRelease ==
    [][last'.op = "auto_release" /\ Anchor =>
        \A s \in Users, b \in keys, u \in Users, e \in AEscrowInputs :
            AutoRelease(s, b, u, e) =>
                LET due == now >= abounty[b].created_at + AUTO_RELEASE_DEADLINE
                    review == abounty[b].initialized /\ abounty[b].status = "Submitted"
                IN
                /\ last'.result = "Ok" =>
                    /\ review /\ due
                    /\ u = abounty[b].auditor
                    /\ vault'[e] = vault[e] - abounty[b].amount
                    /\ received' = [received EXCEPT ![b][u] = @ + abounty[b].amount]
                    /\ abounty' = [abounty EXCEPT ![b].status = "Approved"]
                /\ review /\ ~due => last'.result = "DeadlineNotReached"
                /\ review /\ due /\ u = abounty[b].auditor
                   /\ e = EscrowPda(b, OwnProgram) => last'.result = "Ok"]_vars

\* what auto_release does in the code: it never succeeds, whatever the
\* bounty, the clock and the accounts it is given
C25_NeverSucceeds ==
    [][last'.op = "auto_release" /\ Anchor /\ ~Tick => last'.result # "Ok"]_vars

\* C26. reject_report succeeds only when signed by the creator on a
\* Submitted bounty, and signed by the creator on a Submitted bounty it
\* succeeds; a success clears the auditor and the report reference and sets
\* the status to Open, leaving amount, every other field and every balance
\* unchanged; a failure changes nothing.
C26_RejectReport ==
    [][last'.op = "reject_report" /\ Anchor =>
        \A s \in Users, b \in keys :
            RejectReport(s, b) =>
                /\ last'.result = "Ok" <=>
                      /\ abounty[b].initialized
                      /\ s = abounty[b].creator
                      /\ abounty[b].status = "Submitted"
                /\ last'.result = "Ok" =>
                      /\ abounty'[b].auditor = None
                      /\ abounty'[b].report_uri = NoneInt
                      /\ abounty'[b].status = "Open"
                      /\ abounty'[b].amount = abounty[b].amount
                      /\ abounty' = [abounty EXCEPT ![b].auditor = None,
                                                    ![b].report_uri = NoneInt,
                                                    ![b].status = "Open"]
                      /\ UNCHANGED <<vault, received>>
                /\ last'.result # "Ok" => UNCHANGED store]_vars

\* the creator has rejected a report: the bounty is Open again with no
\* auditor and the escrow still holds the amount
C26_Witness ==
    /\ Anchor
    /\ last = Call("reject_report", "Ok")
    /\ \E b \in keys :
        /\ abounty[b].status = "Open"
        /\ abounty[b].auditor = None /\ abounty[b].report_uri = NoneInt
        /\ abounty[b].amount > 0
        /\ vault[EscrowPda(b, OwnProgram)] = abounty[b].amount

\* the calls a client can send against a bounty of the single-winner
\* program: the instruction, the signer s, the recipient account u, the
\* escrow account e, the amount and the length of the report reference
Calls ==
    [op : {"create_bounty"}, s : Users, u : {None}, e : AEscrowInputs,
     amount : Amounts, len : {0}]
    \cup [op : {"submit_report"}, s : Users, u : {None}, e : {NoAddr},
          amount : {0}, len : UriLens]
    \cup [op : {"approve_and_release"}, s : Users, u : Users, e : AEscrowInputs,
          amount : {0}, len : {0}]
    \cup [op : {"reject_report"}, s : Users, u : {None}, e : {NoAddr},
          amount : {0}, len : {0}]
    \cup [op : {"cancel_bounty"}, s : Users, u : {None}, e : AEscrowInputs,
          amount : {0}, len : {0}]
    \cup [op : {"auto_release"}, s : Users, u : Users, e : AEscrowInputs,
          amount : {0}, len : {0}]

\* what the single-winner program answers to call c against bounty b on
\* the accounts L
Result(L, b, c) ==
    CASE c.op = "create_bounty" -> ACreateBountyOn(L, c.s, b, c.e)
      [] c.op = "submit_report" -> SubmitReportOn(L, c.s, b, c.len)
      [] c.op = "approve_and_release" -> ApproveAndReleaseOn(L, c.s, b, c.u, c.e)
      [] c.op = "reject_report" -> RejectReportOn(L, c.s, b)
      [] c.op = "cancel_bounty" -> ACancelBountyOn(L, c.s, b, c.e)
      [] OTHER -> "InstructionFallbackNotFound"

\* the accounts call c against bounty b leaves when it finds the accounts
\* L: those its handler writes when it succeeds, L when it fails
Run(L, b, c) ==
    IF Result(L, b, c) # "Ok" THEN L
    ELSE CASE c.op = "create_bounty" ->
                ACreateBountyDone(L, c.s, b, c.e, c.amount)
           [] c.op = "submit_report" -> SubmitReportDone(L, c.s, b, c.len)
           [] c.op = "approve_and_release" ->
                ApproveAndReleaseDone(L, c.s, b, c.u, c.e)
           [] c.op = "reject_report" -> RejectReportDone(L, c.s, b)
           [] OTHER -> ACancelBountyDone(L, c.s, b, c.e)

\* C28. Operations on different bounties are independent.  Single-winner
\* program, in every reachable state with two bounties: a call that
\* succeeds against bounty b1 (a failing call leaves the accounts as they
\* are) leaves the record of every other bounty b2, the balance of b2's
\* escrow and what was paid out of b2 unchanged; every call against b2 is
\* answered the same before and after it; and the two calls leave the same
\* accounts in either order.  Multi-winner program: no instruction,
\* whichever bounty it is invoked against and whatever vault, submission and
\* vote accounts of either bounty it is given, changes the record, the vault
\* balance or the payouts of a bounty, or a submission or vote recorded
\* against one; two of them end in the accounts they started from in either
\* order.
C28_Independent ==
    /\ [](Anchor =>
            \A b1 \in keys : \A b2 \in keys \ {b1} :
              \A a \in Calls :
                Result(Ledger, b1, a) = "Ok" =>
                  LET LA == Run(Ledger, b1, a) IN
                  /\ LA.abounty[b2] = abounty[b2]
                  /\ \A p \in {OwnProgram, SystemProgram} :
                        LA.vault[EscrowPda(b2, p)] = vault[EscrowPda(b2, p)]
                  /\ LA.received[b2] = received[b2]
                  /\ \A c \in Calls :
                        /\ Result(LA, b2, c) = Result(Ledger, b2, c)
                        /\ Run(LA, b2, c) = Run(Run(Ledger, b2, c), b1, a))
    /\ [][Native =>
            \A b2 \in BountyKeys :
                /\ bounty'[b2] = bounty[b2]
                /\ vault'[VaultPda(b2)] = vault[VaultPda(b2)]
                /\ received'[b2] = received[b2]
                /\ \A x \in SubKeys :
                      subs[x].bounty_id = b2 => subs'[x] = subs[x]
                /\ \A va \in VoteKeys :
                      votes[va].bounty = b2 => votes'[va] = votes[va]]_vars

\* alice's release has paid bob, the auditor of her bounty, its full amount,
\* while alice is the auditor of bob's bounty, whose report is in review and
\* whose escrow still holds its amount
C28_Witness ==
    /\ Anchor
    /\ last = Call("approve_and_release", "Ok")
    /\ LET b1 == BountyPda("alice")
           b2 == BountyPda("bob") IN
        /\ {b1, b2} \subseteq keys
        /\ abounty[b1].status = "Approved"
        /\ received[b1]["bob"] = MaxAmount
        /\ abounty[b2].status = "Submitted"
        /\ abounty[b2].auditor = "alice"
        /\ abounty[b2].amount = MaxAmount
        /\ vault[EscrowPda(b2, OwnProgram)] = MaxAmount

\* C30. The amount of a bounty never changes after creation, in either
\* program: every step leaves the amount of every initialized bounty as it
\* was, and an initialized bounty stays initialized.
C30_AmountFixed ==
    [][\A b \in BountyKeys :
          /\ bounty[b].initialized =>
                bounty'[b].initialized /\ bounty'[b].amount = bounty[b].amount
          /\ abounty[b].initialized =>
                abounty'[b].initialized /\ abounty'[b].amount = abounty[b].amount]_vars

\* a bounty has been paid to its auditor: its escrow is empty and its amount
\* is still the amount it was created with
C30_Witness ==
    /\ Anchor
    /\ last = Call("approve_and_release", "Ok")
    /\ \E b \in keys :
        /\ abounty[b].status = "Approved"
        /\ abounty[b].amount = MaxAmount
        /\ vault[EscrowPda(b, OwnProgram)] = 0

NativeRelease(b) ==
    \E s \in Users :
        LET v == VaultPda(b) IN
        \/ ClaimBountyCheck(s, b, v) = "Ok" /\ bounty[b].amount > 0
        \/ CancelBountyCheck(s, b, v) = "Ok" /\ bounty[b].amount > 0
        \/ CancelBountyEmergencyCheck(s, b, v) = "Ok" /\ bounty[b].amount > 0
        \/ FinalizeCheck(s, b, v) = "Ok" /\ vault[v] > 0

\* some party can take value out of the escrow of Anchor bounty b now
AnchorRelease(b) ==
    \E s \in Users, u \in Users :
        LET e == EscrowPda(b, OwnProgram) IN
        \/ ApproveAndReleaseCheck(s, b, u, e) = "Ok" /\ abounty[b].amount > 0
        \/ ACancelBountyCheck(s, b, e) = "Ok" /\ abounty[b].amount > 0

\* C38. No funds are ever locked: in every reachable state of either program
\* in which the escrow pool of a bounty holds a balance greater than zero,
\* some instruction signed by some party has all its tests satisfied and
\* moves value out of the pool (already at the current clock value).
C38_NoFundsLocked ==
    \A b \in BountyKeys :
        /\ Native /\ vault[VaultPda(b)] > 0 => NativeRelease(b)
        /\ Anchor /\ vault[EscrowPda(b, OwnProgram)] > 0 => AnchorRelease(b)

\* a report is pending on a funded bounty: the creator's cancel was refused
\* and the creator can release the escrow to the auditor
C38_Witness ==
    /\ Anchor
    /\ last = Call("cancel_bounty", "BountyNotOpen")
    /\ \E b \in keys :
        /\ abounty[b].status = "Submitted"
        /\ vault[EscrowPda(b, OwnProgram)] > 0
        /\ ACancelBountyCheck(abounty[b].creator, b, EscrowPda(b, OwnProgram)) # "Ok"
        /\ AnchorRelease(b)

\* C39. approve_and_release of the Anchor program succeeds only when signed
\* by the bounty's creator, with the status Submitted and the recipient
\* account equal to the recorded auditor; on success it transfers exactly
\* bounty.amount from the escrow to that auditor and sets the status
\* Approved, after which no release, reject, cancel or submit_report
\* succeeds on that bounty and the status stays Approved.
C39_ApproveAndRelease ==
    /\ [](Anchor =>
            \A b \in keys :
                /\ \A s \in Users, u \in Users, e \in AEscrowInputs :
                      ApproveAndReleaseCheck(s, b, u, e) = "Ok" =>
                          /\ s = abounty[b].creator
                          /\ abounty[b].status = "Submitted"
                          /\ u = abounty[b].auditor
                          /\ e = EscrowPda(b, OwnProgram)
                /\ abounty[b].status = "Approved" =>
                      \A s \in Users, u \in Users, e \in AEscrowInputs, len \in UriLens :
                          /\ ApproveAndReleaseCheck(s, b, u, e) # "Ok"
                          /\ RejectReportCheck(s, b) # "Ok"
                          /\ ACancelBountyCheck(s, b, e) # "Ok"
                          /\ SubmitReportCheck(s, b, len) # "Ok")
    /\ [][Anchor =>
            \A b \in keys :
                /\ abounty[b].status = "Approved" => abounty'[b] = abounty[b]
                /\ last'.op = "approve_and_release" /\ last'.result = "Ok"
                   /\ abounty'[b] # abounty[b]
                   => LET e == EscrowPda(b, OwnProgram)
                          auditor == abounty[b].auditor IN
                      /\ abounty'[b] = [abounty[b] EXCEPT !.status = "Approved"]
                      /\ vault' = [vault EXCEPT ![e] = @ - abounty[b].amount]
                      /\ received' = [received EXCEPT ![b][auditor] =
                                          @ + abounty[b].amount]]_vars

\* the auditor was paid the amount, the bounty is Approved, and a further
\* instruction on it has been refused
C39_Witness ==
    /\ Anchor
    /\ last.op \in {"approve_and_release", "reject_report", "cancel_bounty",
                    "submit_report"}
    /\ last.result \in {"BountyNotInReview", "BountyNotOpen"}
    /\ \E b \in keys :
        /\ abounty[b].status = "Approved"
        /\ abounty[b].amount = MaxAmount
        /\ abounty[b].auditor # None
        /\ received[b][abounty[b].auditor] = MaxAmount
        /\ vault[EscrowPda(b, OwnProgram)] = 0

\* C40. In the Anchor program at most one report is pending at a time:
\* submit_report succeeds only when the bounty is Open with no auditor
\* recorded, then records the caller as auditor with the report reference
\* and sets the status Submitted; any submit_report while the status is
\* Submitted fails with BountyNotOpen and leaves the recorded auditor and
\* report reference unchanged.
C40_SubmitReport ==
    /\ [](Anchor =>
            \A b \in keys :
                /\ abounty[b].status = "Open" =>
                      abounty[b].auditor = None /\ abounty[b].report_uri = NoneInt
                /\ abounty[b].status = "Submitted" =>
                      abounty[b].auditor # None /\ abounty[b].report_uri # NoneInt
                /\ \A s \in Users, len \in UriLens :
                      LET r == SubmitReportCheck(s, b, len) IN
                      /\ r = "Ok" =>
                            abounty[b].status = "Open" /\ abounty[b].auditor = None
                      /\ abounty[b].status = "Submitted" => r = "BountyNotOpen")
    /\ [][Anchor /\ ~Tick /\ last'.op = "submit_report" =>
            IF last'.result = "Ok"
            THEN \E s \in Users, b \in keys, len \in UriLens :
                    /\ abounty' = [abounty EXCEPT ![b].auditor = s,
                                                   ![b].report_uri = Some(len),
                                                   ![b].status = "Submitted"]
                    /\ abounty[b].status = "Open" /\ abounty[b].auditor = None
                    /\ UNCHANGED <<vault, received>>
            ELSE UNCHANGED store]_vars

\* a second report was offered while one is pending and was refused; the
\* pending report and its auditor are still recorded
C40_Witness ==
    /\ Anchor
    /\ last = Call("submit_report", "BountyNotOpen")
    /\ \E b \in keys :
        /\ abounty[b].status = "Submitted"
        /\ abounty[b].auditor # None
        /\ abounty[b].report_uri = Some(MAX_REPORT_URI_SIZE - 4)

====
